---- MODULE Spec2Model ----
(***************************************************************************)
(* A model of csv_to_anki: the quiz pipeline (create_qna_anki.py) and the  *)
(* vocabulary pipeline (convert_csv_to_anki.py).                           *)
(* Text is modelled as a sequence of one-character strings, so that        *)
(* str.find, str.replace, str.split and str.strip are computed character   *)
(* by character, as Python computes them.                                  *)
(***************************************************************************)
EXTENDS Integers, Sequences, FiniteSets, TLC

VARIABLES
    words,      \* create_anki_cards: the list of records (shuffled in place)
    word_idx,   \* create_anki_cards: position of the loop over words (1-based)
    options,    \* create_multiple_choice: the option list of the last card
    cards,      \* create_anki_cards: number of cards appended so far
    qpc,        \* create_anki_cards: "start", "loop", "card", "returned", "raised"
    csv_files,        \* main (vocab): the files of the directory, as globbed
    file_idx,         \* main (vocab): position of the loop over csv_files
    processed_count,  \* main (vocab): packages written
    written,          \* main (vocab): positions of the files whose package exists
    bpc,              \* main (vocab): "loop", "done" or "raised"
    csv_text,    \* convert_csv_to_anki: the content of the file at csv_path
    line_num,    \* convert_csv_to_anki: the line the reading loop is at
    rows,        \* convert_csv_to_anki: the field lists kept so far
    max_fields,  \* convert_csv_to_anki: the widest row so far
    df,          \* convert_csv_to_anki: the padded table
    row_idx,     \* convert_csv_to_anki: the row the note loop is at
    notes,       \* convert_csv_to_anki: the notes added to the deck
    ppc,         \* convert_csv_to_anki: "size", "read", "notes", "deck", "none"
    hl_word,            \* highlighter: word (line 170)
    hl_example,         \* highlighter: example (line 179)
    start,              \* highlighter: where the next search starts
    formatted_example,  \* highlighter: the example as formatted so far
    hl_iterations,      \* highlighter: passes of the loop that found the word
    hpc,                \* highlighter: "loop" or "done"
    example_in,             \* quiz: the third field of a line (line 38)
    usage,                  \* quiz: the record's usage (line 57)
    example_without_usage,  \* quiz: the record's example (line 56)
    answer_example,         \* quiz: the example of the answer side (line 155)
    upc,                    \* quiz: "line", "record" or "answer"
    pipeline,    \* the script that is run: "vocab" or "quiz"
    deck_name,   \* the deck name both scripts derive from the input file name
    str_hash,    \* per process started so far: its value of hash(deck_name)
    decks,       \* per finished run: the deck id and the model id it wrote
    ipc,         \* "start" (no process), "running" or "done"
    quiz_text,      \* read_magoosh_words: the content of csv_file
    quiz_line,      \* read_magoosh_words: the line the loop is at
    magoosh_words,  \* read_magoosh_words: its list words
    invalid_lines,  \* read_magoosh_words: messages printed for skipped lines
    rpc             \* read_magoosh_words: "loop" or "returned"

quizVars == <<words, word_idx, options, cards, qpc>>
batchVars == <<csv_files, file_idx, processed_count, written, bpc>>
parseVars == <<csv_text, line_num, rows, max_fields, df, row_idx, notes, ppc>>
highlightVars ==
    <<hl_word, hl_example, start, formatted_example, hl_iterations, hpc>>
usageVars == <<example_in, usage, example_without_usage, answer_example, upc>>
idVars == <<pipeline, deck_name, str_hash, decks, ipc>>
readVars == <<quiz_text, quiz_line, magoosh_words, invalid_lines, rpc>>
vars == <<quizVars, batchVars, parseVars, highlightVars, usageVars, idVars, readVars>>

notQuiz == <<batchVars, parseVars, highlightVars, usageVars, idVars, readVars>>
notBatch == <<quizVars, parseVars, highlightVars, usageVars, idVars, readVars>>
notParse == <<quizVars, batchVars, highlightVars, usageVars, idVars, readVars>>
notHighlight == <<quizVars, batchVars, parseVars, usageVars, idVars, readVars>>
notUsage == <<quizVars, batchVars, parseVars, highlightVars, idVars, readVars>>
notIds == <<quizVars, batchVars, parseVars, highlightVars, usageVars, readVars>>
notRead == <<quizVars, batchVars, parseVars, highlightVars, usageVars, idVars>>

\* a pipeline that is not running
QuizIdle ==
    words = <<>> /\ word_idx = 0 /\ options = <<>> /\ cards = 0 /\ qpc = "idle"
BatchIdle ==
    /\ csv_files = <<>> /\ file_idx = 0 /\ processed_count = 0
    /\ written = <<>> /\ bpc = "idle"
ParseIdle ==
    /\ csv_text = <<>> /\ line_num = 0 /\ rows = <<>> /\ max_fields = 0
    /\ df = <<>> /\ row_idx = 0 /\ notes = <<>> /\ ppc = "idle"
HighlightIdle ==
    /\ hl_word = <<>> /\ hl_example = <<>> /\ start = 0
    /\ formatted_example = <<>> /\ hl_iterations = 0 /\ hpc = "idle"
UsageIdle ==
    /\ example_in = <<>> /\ usage = <<>> /\ example_without_usage = <<>>
    /\ answer_example = <<>> /\ upc = "idle"
IdsIdle ==
    /\ pipeline = "none" /\ deck_name = "" /\ str_hash = <<>>
    /\ decks = <<>> /\ ipc = "idle"
ReadIdle ==
    /\ quiz_text = <<>> /\ quiz_line = 0 /\ magoosh_words = <<>>
    /\ invalid_lines = 0 /\ rpc = "idle"

(***************************************************************************)
(* Bounds                                                                  *)
(***************************************************************************)
\* longest record list handed to create_anki_cards
MaxWords == 5
\* most CSV files in the directory
MaxFiles == 3
\* most fields in a vocabulary file, all lines together
MaxFileFields == 5
\* longest word and longest example given to the highlighter
MaxWordLen == 2
MaxExampleLen == 4
\* longest example searched for the empty word
MaxEmptyWordExample == 1
\* most pieces (tags, blanks, letters) in a quiz example
MaxPieces == 6
\* most lines in a quiz file
MaxQuizLines == 3
\* most runs of a script on the same input file
MaxRuns == 2
\* largest magnitude of a value of hash(str)
MaxHash == 3

(***************************************************************************)
(* General helpers                                                         *)
(***************************************************************************)
Range(s) == {s[i] : i \in 1..Len(s)}

\* all sequences over S with length lo..hi
SeqsOf(S, lo, hi) == UNION {[1..n -> S] : n \in lo..hi}

\* the bijections of 1..n onto itself
Perms(n) == {p \in [1..n -> 1..n] : \A i, j \in 1..n : p[i] = p[j] => i = j}

\* s is in non-decreasing order of the keys key[s[i]]
IsSorted(s, key) == \A i \in 1..(Len(s) - 1) : key[s[i]] <= key[s[i + 1]]

(***************************************************************************)
(* Text: a str is a sequence of one-character strings; indices are         *)
(* Python's, from 0                                                        *)
(***************************************************************************)
Min(S) == CHOOSE x \in S : \A y \in S : x <= y
Max(a, b) == IF a >= b THEN a ELSE b

\* s[i:j] for 0 <= i, any j
Slice(s, i, j) == SubSeq(s, i + 1, IF j > Len(s) THEN Len(s) ELSE j)

\* sub is in s at index i
OccursAt(s, sub, i) ==
    /\ i >= 0
    /\ i + Len(sub) <= Len(s)
    /\ \A k \in 1..Len(sub) : s[i + k] = sub[k]

\* s.find(sub, from): the lowest index >= from where sub is, or -1
Find(s, sub, from) ==
    LET at == {i \in from..(Len(s) - Len(sub)) : OccursAt(s, sub, i)}
    IN  IF at = {} THEN -1 ELSE Min(at)

\* s.replace(old, new): every occurrence, left to right, without overlap; an
\* empty old matches before every character and at the end
RECURSIVE Replace(_, _, _)
Replace(s, old, new) ==
    IF old = <<>>
    THEN [p \in 1..(Len(s) + (Len(s) + 1) * Len(new)) |->
             IF ((p - 1) % (Len(new) + 1)) < Len(new)
             THEN new[((p - 1) % (Len(new) + 1)) + 1]
             ELSE s[((p - 1) \div (Len(new) + 1)) + 1]]
    ELSE LET i == Find(s, old, 0)
         IN  IF i = -1 THEN s
             ELSE Slice(s, 0, i) \o new
                    \o Replace(Slice(s, i + Len(old), Len(s)), old, new)

\* "I" stands for U+0130, the capital I with a dot above, and "^" for
\* U+0307, the combining dot above: the lower case of U+0130 is the two
\* characters i, U+0307
LowerChar(c) ==
    CASE c = "A" -> <<"a">>
      [] c = "B" -> <<"b">>
      [] c = "I" -> <<"i", "^">>
      [] OTHER -> <<c>>

\* s.lower()
RECURSIVE Lower(_)
Lower(s) == IF s = <<>> THEN <<>> ELSE LowerChar(Head(s)) \o Lower(Tail(s))

Whitespace == {" ", "\n"}

\* s.strip(): without the whitespace at both ends
RECURSIVE LStrip(_)
LStrip(s) ==
    IF s # <<>> /\ Head(s) \in Whitespace THEN LStrip(Tail(s)) ELSE s
RECURSIVE RStrip(_)
RStrip(s) ==
    IF s # <<>> /\ s[Len(s)] \in Whitespace
    THEN RStrip(SubSeq(s, 1, Len(s) - 1)) ELSE s
Strip(s) == RStrip(LStrip(s))

\* s.split(sep) for a one-character sep: the list of the parts between
\* separators, [''] for the empty string
RECURSIVE Split(_, _)
Split(s, sep) ==
    LET i == Find(s, <<sep>>, 0)
    IN  IF i = -1 THEN <<s>>
        ELSE <<Slice(s, 0, i)>> \o Split(Slice(s, i + 1, Len(s)), sep)

\* iterating a text file: the lines, each with its newline, the last one
\* perhaps without
RECURSIVE FileLines(_)
FileLines(text) ==
    IF text = <<>> THEN <<>>
    ELSE LET i == Find(text, <<"\n">>, 0)
         IN  IF i = -1 THEN <<text>>
             ELSE <<Slice(text, 0, i + 1)>>
                    \o FileLines(Slice(text, i + 1, Len(text)))

\* ''.join(list)
RECURSIVE Join(_)
Join(list) == IF list = <<>> THEN <<>> ELSE Head(list) \o Join(Tail(list))

(***************************************************************************)
(* Quiz pipeline: records                                                  *)
(***************************************************************************)
QnaRecord(w, f) == [word |-> w, form |-> f]

\* the records a quiz file can hold; a line repeated in the file gives the
\* same record twice
QnaRecords ==
    {QnaRecord("a", "n"), QnaRecord("b", "n"), QnaRecord("c", "n"),
     QnaRecord("d", "n"), QnaRecord("b", "v")}

\* an arbitrary order of the records, used only to list each input once
RecordKey == CHOOSE k \in [QnaRecords -> 1..Cardinality(QnaRecords)] :
                \A r1, r2 \in QnaRecords : k[r1] = k[r2] => r1 = r2

\* the permutations of 1..n for every list length of the model
PermsOf == [n \in 0..MaxWords |-> Perms(n)]

(***************************************************************************)
(* random.shuffle and random.sample: every outcome the generator can give  *)
(***************************************************************************)
\* random.shuffle(s): every permutation of the list
Shuffled(s) == {[i \in 1..Len(s) |-> s[p[i]]] : p \in PermsOf[Len(s)]}

\* random.sample(population, k): k distinct positions of the list, in any order
RandomSample(population, k) ==
    {[i \in 1..k |-> population[p[i]]] :
        p \in {q \in [1..k -> 1..Len(population)] :
                  \A i, j \in 1..k : q[i] = q[j] => i = j}}

(***************************************************************************)
(* create_multiple_choice                                                  *)
(***************************************************************************)
\* the list comprehension of line 70: same form, another word
SameFormOthers(word, all_words) ==
    LET keep(w) == w.word # word.word /\ w.form = word.form
    IN  SelectSeq(all_words, keep)

\* the list comprehension of line 80: another word, any form
AllOthers(word, all_words) ==
    LET keep(w) == w.word # word.word
    IN  SelectSeq(all_words, keep)

\* lines 70-80 without the form filter of line 71
other_words_AnyForm(word, all_words) == AllOthers(word, all_words)

\* other_words as it stands at line 83
other_words(word, all_words) ==
    IF Len(SameFormOthers(word, all_words)) < 3
    THEN AllOthers(word, all_words)
    ELSE SameFormOthers(word, all_words)

\* random.sample raises ValueError when the sample is larger than the population
SampleRaises(word, all_words) == Len(other_words(word, all_words)) < 3

\* every option list create_multiple_choice can return
create_multiple_choice(word, all_words) ==
    UNION {Shuffled(Append(s, word)) :
              s \in RandomSample(other_words(word, all_words), 3)}

(***************************************************************************)
(* create_anki_cards                                                       *)
(***************************************************************************)
\* The input list is taken in one fixed order: line 99 shuffles it before
\* anything reads it, so every order of every list is reached.
InitQuiz ==
    /\ words \in {s \in SeqsOf(QnaRecords, 0, MaxWords) : IsSorted(s, RecordKey)}
    /\ word_idx = 0
    /\ options = <<>>
    /\ cards = 0
    /\ qpc = "start"
    /\ BatchIdle /\ ParseIdle /\ HighlightIdle /\ UsageIdle /\ IdsIdle /\ ReadIdle

\* line 99: random.shuffle(words)
ShuffleWords ==
    /\ qpc = "start"
    /\ words' \in Shuffled(words)
    /\ word_idx' = 1
    /\ qpc' = "loop"
    /\ UNCHANGED <<options, cards, notQuiz>>

\* line 103, when random.sample raises ValueError: nothing catches it
ChooseOptionsRaises ==
    /\ qpc = "loop"
    /\ word_idx <= Len(words)
    /\ SampleRaises(words[word_idx], words)
    /\ qpc' = "raised"
    /\ UNCHANGED <<words, word_idx, options, cards, notQuiz>>

\* line 103: options = create_multiple_choice(word, words)
ChooseOptions ==
    /\ qpc = "loop"
    /\ word_idx <= Len(words)
    /\ ~SampleRaises(words[word_idx], words)
    /\ options' \in create_multiple_choice(words[word_idx], words)
    /\ qpc' = "card"
    /\ UNCHANGED <<words, word_idx, cards, notQuiz>>

\* lines 105-197: the card is built from options and appended; the loop
\* moves on and the local options is rebound by the next iteration
AppendCard ==
    /\ qpc = "card"
    /\ cards' = cards + 1
    /\ word_idx' = word_idx + 1
    /\ options' = <<>>
    /\ qpc' = "loop"
    /\ UNCHANGED <<words, notQuiz>>

\* line 199: return cards
ReturnCards ==
    /\ qpc = "loop"
    /\ word_idx > Len(words)
    /\ qpc' = "returned"
    /\ UNCHANGED <<words, word_idx, options, cards, notQuiz>>

NextQuiz ==
    ShuffleWords \/ ChooseOptionsRaises \/ ChooseOptions \/ AppendCard \/ ReturnCards

SpecQuiz == InitQuiz /\ [][NextQuiz]_vars

\* the record the loop of line 102 is at
Target == words[word_idx]

\* the positions other than the target's whose record has the target's form
SameFormPeers == {j \in 1..Len(words) : j # word_idx /\ words[j].form = Target.form}

PairwiseDistinct(s) == \A i, j \in 1..Len(s) : s[i] = s[j] => i = j

\* C1: with at least 4 records of the target's form in the record set, the
\* returned option list holds exactly 4 pairwise distinct records, exactly
\* one of them with the target's word.
C1_FourDistinctOptions ==
    (qpc = "card" /\ Cardinality(SameFormPeers) + 1 >= 4) =>
        /\ Len(options) = 4
        /\ PairwiseDistinct(options)
        /\ Cardinality({i \in 1..Len(options) : options[i].word = Target.word}) = 1

\* C2: a target with fewer than 3 same-form peers in a record set of at
\* least 4 records gets its options without an exception, and they are 4
\* distinct records.
C2_FallbackSucceeds ==
    (/\ qpc \in {"loop", "card", "raised"}
     /\ word_idx <= Len(words)
     /\ Len(words) >= 4
     /\ Cardinality(SameFormPeers) < 3) =>
        /\ qpc # "raised"
        /\ ~SampleRaises(Target, words)
        /\ qpc = "card" => (Len(options) = 4 /\ PairwiseDistinct(options))

C4_NeverFatal ==
    Len(words) >= 1 =>
        /\ qpc # "raised"
        /\ qpc = "returned" => cards = Len(words)

(***************************************************************************)
(* Vocabulary pipeline: main, directory mode                               *)
(***************************************************************************)
\* what a globbed *.csv path can be when convert_csv_to_anki gets to it
FileKinds == {"good", "zero_byte", "unreadable", "undecodable", "no_data",
              "one_column", "dangling"}

\* a file, and whether its package can be written to anki_decks/
CsvFiles == [kind : FileKinds, writable : BOOLEAN]

\* os.path.getsize (line 47) is outside the try of line 51: a path that
\* cannot be stat'ed (a dangling link) raises out of convert_csv_to_anki
ConvertRaises(f) == f.kind = "dangling"

\* convert_csv_to_anki returns a deck (not None): the size is not 0, and the
\* try of lines 51-86 met no exception and no empty frame
ConvertReturnsDeck(f) == f.kind = "good"

\* package.write_to_file (line 300) raises
WriteRaises(f) == ~f.writable

InitBatch ==
    /\ csv_files \in SeqsOf(CsvFiles, 0, MaxFiles)
    /\ file_idx = 1
    /\ processed_count = 0
    /\ written = <<>>
    /\ bpc = "loop"
    /\ QuizIdle /\ ParseIdle /\ HighlightIdle /\ UsageIdle /\ IdsIdle /\ ReadIdle

\* lines 289-291: no CSV file in the directory
NoCsvFiles ==
    /\ bpc = "loop"
    /\ csv_files = <<>>
    /\ bpc' = "done"
    /\ UNCHANGED <<csv_files, file_idx, processed_count, written, notBatch>>

\* lines 294-297, deck is None: the file is skipped
SkipFile ==
    /\ bpc = "loop"
    /\ file_idx <= Len(csv_files)
    /\ ~ConvertRaises(csv_files[file_idx])
    /\ ~ConvertReturnsDeck(csv_files[file_idx])
    /\ file_idx' = file_idx + 1
    /\ UNCHANGED <<csv_files, processed_count, written, bpc, notBatch>>

\* lines 294-302, deck is not None and the package is written
WritePackage ==
    /\ bpc = "loop"
    /\ file_idx <= Len(csv_files)
    /\ ~ConvertRaises(csv_files[file_idx])
    /\ ConvertReturnsDeck(csv_files[file_idx])
    /\ ~WriteRaises(csv_files[file_idx])
    /\ written' = Append(written, file_idx)
    /\ processed_count' = processed_count + 1
    /\ file_idx' = file_idx + 1
    /\ UNCHANGED <<csv_files, bpc, notBatch>>

\* lines 294-300, an exception leaves the loop: main has no try around it
FileRaises ==
    /\ bpc = "loop"
    /\ file_idx <= Len(csv_files)
    /\ \/ ConvertRaises(csv_files[file_idx])
       \/ /\ ConvertReturnsDeck(csv_files[file_idx])
          /\ WriteRaises(csv_files[file_idx])
    /\ bpc' = "raised"
    /\ UNCHANGED <<csv_files, file_idx, processed_count, written, notBatch>>

\* line 304: the loop is over
PrintSummary ==
    /\ bpc = "loop"
    /\ csv_files # <<>>
    /\ file_idx > Len(csv_files)
    /\ bpc' = "done"
    /\ UNCHANGED <<csv_files, file_idx, processed_count, written, notBatch>>

NextBatch == NoCsvFiles \/ SkipFile \/ WritePackage \/ FileRaises \/ PrintSummary

SpecBatch == InitBatch /\ [][NextBatch]_vars

\* C5: no file's failure ends the loop: main never raises, and when it is
\* over every file was reached and every good, writable file has its package.
C5_BatchIsolation ==
    /\ bpc # "raised"
    /\ bpc = "done" =>
          /\ file_idx > Len(csv_files)
          /\ \A i \in 1..Len(csv_files) :
                (csv_files[i].kind = "good" /\ csv_files[i].writable)
                    => i \in Range(written)

(***************************************************************************)
(* Vocabulary pipeline: the example highlighter (lines 175-197)            *)
(***************************************************************************)
\* f'<b>{original_word}</b>'
Bold(t) == <<"<", "b", ">">> \o t \o <<"<", "/", "b", ">">>

\* line 185: example_lower.find(word_lower, start)
HighlightIndex(word, example, from) == Find(Lower(example), Lower(word), from)

\* lines 190-192: the text found at index, replaced by its bold form wherever
\* it is in formatted_example
HighlightReplace(word, example, formatted, index) ==
    LET original_word == Slice(example, index, index + Len(word))
    IN  Replace(formatted, original_word, Bold(original_word))

\* the loop of lines 184-193, from its state (start, formatted_example)
RECURSIVE HighlightFrom(_, _, _, _)
HighlightFrom(word, example, from, formatted) ==
    LET index == HighlightIndex(word, example, from)
    IN  IF index = -1 THEN formatted
        ELSE HighlightFrom(word, example, index + 1,
                           HighlightReplace(word, example, formatted, index))

\* lines 181-195: one example as its bulleted line
FormatExample(word, example) ==
    <<"<", "d", "i", "v", ">", "*", " ">>
        \o HighlightFrom(word, example, 0, example)
        \o <<"<", "/", "d", "i", "v", ">">>

\* lines 179-197: the Example field of the note
FormatExamples(word, examples) ==
    Join([i \in 1..Len(examples) |-> FormatExample(word, examples[i])])

(***************************************************************************)
(* Vocabulary pipeline: convert_csv_to_anki, the parser (lines 45-86) and  *)
(* the note loop (lines 163-221)                                           *)
(***************************************************************************)
\* the texts a field of the file can hold: nothing, a word, a word in blanks
FieldTexts == {<<>>, <<"a">>, <<" ", "b", " ">>}
Separators == {"|", "\n"}

\* the files of k fields, each field followed by a '|' or a newline but the last
CsvTextsOf[k \in 1..MaxFileFields] ==
    IF k = 1 THEN FieldTexts
    ELSE {t \o <<c>> \o f : t \in CsvTextsOf[k - 1], c \in Separators, f \in FieldTexts}

\* the files of the model; the empty text is the zero-byte file
CsvTexts == {<<>>} \cup UNION {CsvTextsOf[k] : k \in 1..MaxFileFields}

\* line 58 without the strip of each field
LineFields_NoStrip(line) == Split(Strip(line), "|")

\* line 58: the fields of a line, stripped
LineFields(line) ==
    LET parts == Split(Strip(line), "|")
    IN  [i \in 1..Len(parts) |-> Strip(parts[i])]

\* line 61: not fields or not any(fields)
SkipsLine(fields) == fields = <<>> \/ \A i \in 1..Len(fields) : fields[i] = <<>>

\* lines 69-72: pd.DataFrame(rows).fillna(''): every row as wide as the widest
PadRow(row, width) == row \o [i \in 1..(width - Len(row)) |-> <<>>]
DataFrame(rs, width) == [i \in 1..Len(rs) |-> PadRow(rs[i], width)]

\* line 80: the list assigned to df.columns for a frame of ncols columns
ColumnNames(ncols) ==
    <<<<"Word">>, <<"Meaning">>>> \o [i \in 1..(ncols - 2) |-> <<"Example_", i - 1>>]

\* line 80 raises ValueError when the list is not as long as the frame is wide
ColumnsRaise(ncols) == Len(ColumnNames(ncols)) # ncols

\* line 167: the positions of the columns named Example_...
ExampleCols(ncols) ==
    LET names == ColumnNames(ncols)
    IN  SelectSeq([i \in 1..ncols |-> i], LAMBDA i : names[i][1] = "Example_")

\* line 173: the non-empty examples of a row, stripped
RowExamples(row) ==
    LET cols == ExampleCols(Len(row))
        cells == [i \in 1..Len(cols) |-> Strip(row[cols[i]])]
    IN  SelectSeq(cells, LAMBDA c : c # <<>>)

\* lines 170-220: the note of a row (the audio tag and the red span of the
\* special words left out)
RowNote(row) ==
    [word |-> row[1],
     meaning |-> row[2],
     examples |-> RowExamples(row),
     example_field |-> FormatExamples(row[1], RowExamples(row))]

InitParse ==
    /\ csv_text \in CsvTexts
    /\ line_num = 0
    /\ rows = <<>>
    /\ max_fields = 0
    /\ df = <<>>
    /\ row_idx = 0
    /\ notes = <<>>
    /\ ppc = "size"
    /\ QuizIdle /\ BatchIdle /\ HighlightIdle /\ UsageIdle /\ IdsIdle /\ ReadIdle

\* lines 47-49: a zero-byte file returns None
EmptyFile ==
    /\ ppc = "size"
    /\ csv_text = <<>>
    /\ ppc' = "none"
    /\ UNCHANGED <<csv_text, line_num, rows, max_fields, df, row_idx, notes, notParse>>

\* lines 47, 53-55: the file is opened
OpenFile ==
    /\ ppc = "size"
    /\ csv_text # <<>>
    /\ line_num' = 1
    /\ ppc' = "read"
    /\ UNCHANGED <<csv_text, rows, max_fields, df, row_idx, notes, notParse>>

\* lines 56-66: one line of the file
ReadLine ==
    /\ ppc = "read"
    /\ line_num <= Len(FileLines(csv_text))
    /\ LET fields == LineFields(FileLines(csv_text)[line_num])
       IN  IF SkipsLine(fields)
           THEN UNCHANGED <<rows, max_fields>>
           ELSE /\ max_fields' = Max(max_fields, Len(fields))
                /\ rows' = Append(rows, fields)
    /\ line_num' = line_num + 1
    /\ UNCHANGED <<csv_text, df, row_idx, notes, ppc, notParse>>

\* lines 69-77: the frame is empty, None is returned
NoData ==
    /\ ppc = "read"
    /\ line_num > Len(FileLines(csv_text))
    /\ rows = <<>>
    /\ df' = DataFrame(rows, max_fields)
    /\ ppc' = "none"
    /\ UNCHANGED <<csv_text, line_num, rows, max_fields, row_idx, notes, notParse>>

\* lines 69-80, 84-86: naming the columns raises, the except clause returns None
ColumnsError ==
    /\ ppc = "read"
    /\ line_num > Len(FileLines(csv_text))
    /\ rows # <<>>
    /\ ColumnsRaise(max_fields)
    /\ df' = DataFrame(rows, max_fields)
    /\ ppc' = "none"
    /\ UNCHANGED <<csv_text, line_num, rows, max_fields, row_idx, notes, notParse>>

\* lines 69-80: the frame is built and its columns named
MakeFrame ==
    /\ ppc = "read"
    /\ line_num > Len(FileLines(csv_text))
    /\ rows # <<>>
    /\ ~ColumnsRaise(max_fields)
    /\ df' = DataFrame(rows, max_fields)
    /\ row_idx' = 1
    /\ ppc' = "notes"
    /\ UNCHANGED <<csv_text, line_num, rows, max_fields, notes, notParse>>

\* lines 163-221: one row becomes a note of the deck
AddNote ==
    /\ ppc = "notes"
    /\ row_idx <= Len(df)
    /\ notes' = Append(notes, RowNote(df[row_idx]))
    /\ row_idx' = row_idx + 1
    /\ UNCHANGED <<csv_text, line_num, rows, max_fields, df, ppc, notParse>>

\* line 223: return deck
ReturnDeck ==
    /\ ppc = "notes"
    /\ row_idx > Len(df)
    /\ ppc' = "deck"
    /\ UNCHANGED <<csv_text, line_num, rows, max_fields, df, row_idx, notes, notParse>>

NextParse ==
    \/ EmptyFile \/ OpenFile \/ ReadLine \/ NoData \/ ColumnsError
    \/ MakeFrame \/ AddNote \/ ReturnDeck

SpecParse == InitParse /\ [][NextParse]_vars

\* the '|'-separated fields of a line of the file, each trimmed
TrimmedFields(line) ==
    LET parts == Split(line, "|")
    IN  [i \in 1..Len(parts) |-> Strip(parts[i])]

NonEmptyFields(fields) == SelectSeq(fields, LAMBDA f : f # <<>>)

\* the trimmed field lists of the lines with at least k non-empty fields, in
\* line order
DataLines(k) ==
    LET lines == FileLines(csv_text)
        all == [i \in 1..Len(lines) |-> TrimmedFields(lines[i])]
    IN  SelectSeq(all, LAMBDA f : Len(NonEmptyFields(f)) >= k)

\* field i (from 1) of a field list, '' when the line is shorter
FieldOr(fields, i) == IF i <= Len(fields) THEN fields[i] ELSE <<>>

Returned == ppc \in {"deck", "none"}

\* C6 as stated: the records are those of the lines with at least 2
\* non-empty fields, one per line in line order, with word field 0, meaning
\* field 1 and examples all the remaining fields.
C6_RecordPerLineOriginal ==
    (Returned /\ DataLines(2) # <<>>) =>
        LET L == DataLines(2)
        IN  /\ ppc = "deck"
            /\ Len(notes) = Len(L)
            /\ \A i \in 1..Len(L) :
                  /\ notes[i].word = L[i][1]
                  /\ notes[i].meaning = L[i][2]
                  /\ notes[i].examples = SubSeq(L[i], 3, Len(L[i]))

\* C6 as amended: in a file that has a line with at least 2 non-empty fields,
\* every line with a non-empty field yields one record, in line order, with
\* word field 0, meaning field 1 ('' on a one-field line) and examples the
\* remaining non-empty fields in their order.
C6_RecordPerLine ==
    (Returned /\ DataLines(2) # <<>>) =>
        LET L == DataLines(1)
        IN  /\ ppc = "deck"
            /\ Len(notes) = Len(L)
            /\ \A i \in 1..Len(L) :
                  /\ notes[i].word = L[i][1]
                  /\ notes[i].meaning = FieldOr(L[i], 2)
                  /\ notes[i].examples = NonEmptyFields(SubSeq(L[i], 3, Len(L[i])))

\* C6's case: a deck of two records, one of them with two different
\* examples and one from a line of a single field
C6_Witness ==
    /\ ppc = "deck"
    /\ Len(notes) = 2
    /\ \E i \in 1..2 :
          /\ notes[i].word # <<>>
          /\ notes[i].meaning # <<>>
          /\ notes[i].examples = <<<<"a">>, <<"b">>>>
    /\ \E i \in 1..2 : Len(DataLines(1)[i]) = 1

\* C7: in a file whose lines all hold something, every line yields a record
\* and the file is not given up, also when no line has a second field; a
\* line holding only a word gives a record with meaning '' and no examples.
C7_ShortLinesKept ==
    (/\ Returned
     /\ csv_text # <<>>
     /\ Len(DataLines(1)) = Len(FileLines(csv_text))) =>
        LET L == DataLines(1)
        IN  /\ ppc = "deck"
            /\ Len(notes) = Len(L)
            /\ \A i \in 1..Len(L) :
                  Len(L[i]) = 1 =>
                      /\ notes[i].word = L[i][1]
                      /\ notes[i].meaning = <<>>
                      /\ notes[i].examples = <<>>

(***************************************************************************)
(* Vocabulary pipeline: the highlighter's loop, step by step               *)
(***************************************************************************)
HlLetters == {"a", "A", "b"}
HlWords == SeqsOf(HlLetters, 1, MaxWordLen)
HlExamples == SeqsOf(HlLetters \cup {" "}, 0, MaxExampleLen)

\* lines 177-183
InitHighlight ==
    /\ hl_word \in HlWords
    /\ hl_example \in HlExamples
    /\ start = 0
    /\ formatted_example = hl_example
    /\ hl_iterations = 0
    /\ hpc = "loop"
    /\ QuizIdle /\ BatchIdle /\ ParseIdle /\ UsageIdle /\ IdsIdle /\ ReadIdle

\* lines 185-193: an occurrence is found and replaced
HighlightMatch ==
    /\ hpc = "loop"
    /\ LET index == HighlightIndex(hl_word, hl_example, start)
       IN  /\ index # -1
           /\ formatted_example' =
                 HighlightReplace(hl_word, hl_example, formatted_example, index)
           /\ start' = index + 1
    /\ hl_iterations' = hl_iterations + 1
    /\ UNCHANGED <<hl_word, hl_example, hpc, notHighlight>>

\* lines 185-187: no further occurrence, the loop ends
HighlightBreak ==
    /\ hpc = "loop"
    /\ HighlightIndex(hl_word, hl_example, start) = -1
    /\ hpc' = "done"
    /\ UNCHANGED <<hl_word, hl_example, start, formatted_example,
                   hl_iterations, notHighlight>>

NextHighlight == HighlightMatch \/ HighlightBreak

SpecHighlight == InitHighlight /\ [][NextHighlight]_vars

\* the indices where the word is in the example, case ignored
Occurrences ==
    {i \in 0..(Len(hl_example) - Len(hl_word)) :
        Lower(Slice(hl_example, i, i + Len(hl_word))) = Lower(hl_word)}

NoOverlap ==
    \A i, j \in Occurrences : i < j => i + Len(hl_word) <= j

\* the example from index i on, each occurrence of w wrapped once in its own
\* casing, the rest as it is
RECURSIVE WrapOnce(_, _, _)
WrapOnce(ex, w, i) ==
    IF i >= Len(ex) THEN <<>>
    ELSE IF /\ i + Len(w) <= Len(ex)
            /\ Lower(Slice(ex, i, i + Len(w))) = Lower(w)
         THEN Bold(Slice(ex, i, i + Len(w))) \o WrapOnce(ex, w, i + Len(w))
         ELSE <<ex[i + 1]>> \o WrapOnce(ex, w, i + 1)

\* C8: the highlighter's output is the example with every occurrence of the
\* word (case ignored, word boundaries ignored) wrapped once in <b>...</b> in
\* the casing found, and nothing else changed.
C8_WrapsEachOnce ==
    (hpc = "done" /\ NoOverlap) =>
        formatted_example = WrapOnce(hl_example, hl_word, 0)

(***************************************************************************)
(* Vocabulary pipeline: the search loop, the empty word included           *)
(***************************************************************************)
SearchLetters == {"a", "A", "I"}

\* lines 177-183: any word with any example, the empty word (a line whose
\* first field is empty) among them
InitSearch ==
    /\ \/ /\ hl_word = <<>>
          /\ hl_example \in SeqsOf(SearchLetters, 0, MaxEmptyWordExample)
       \/ /\ hl_word \in SeqsOf(SearchLetters, 1, MaxWordLen)
          /\ hl_example \in SeqsOf(SearchLetters, 0, MaxExampleLen)
    /\ start = 0
    /\ formatted_example = hl_example
    /\ hl_iterations = 0
    /\ hpc = "loop"
    /\ QuizIdle /\ BatchIdle /\ ParseIdle /\ UsageIdle /\ IdsIdle /\ ReadIdle

SpecSearch == InitSearch /\ [][NextHighlight]_vars

\* C13: the search loop of the highlighter finds the word at most
\* len(example)+1 times before it ends, for every word, the empty one
\* included, and every example.
C13_SearchBounded ==
    hpc \in {"loop", "done"} => hl_iterations <= Len(hl_example) + 1

\* the part of C13 that holds: each pass that finds the word moves the
\* search start forward, and the start never passes the end of the lowered
\* example by more than one, so the loop ends
SearchStartIncreases == [][start' # start => start' > start]_vars
SearchStartBounded ==
    hpc \in {"loop", "done"} =>
        /\ start <= Len(Lower(hl_example)) + 1
        /\ hl_iterations <= start

(***************************************************************************)
(* Quiz pipeline: extract_usage (lines 10-22) and the answer side (155)    *)
(***************************************************************************)
StrongOpen == <<"<", "s", "t", "r", "o", "n", "g", ">">>
StrongClose == <<"<", "/", "s", "t", "r", "o", "n", "g", ">">>
Blank == <<"_", "_", "_", "_", "_">>

\* line 15 with a greedy group: (.*) runs to the last closing tag
RegexSearch_Greedy(ex) ==
    LET lastClose(i) ==
            LET js == {j \in (i + Len(StrongOpen))..Len(ex) : OccursAt(ex, StrongClose, j)}
            IN  IF js = {} THEN -1 ELSE CHOOSE j \in js : \A k \in js : k <= j
        matches == {i \in 0..Len(ex) :
                      OccursAt(ex, StrongOpen, i) /\ lastClose(i) # -1}
    IN  IF matches = {} THEN <<>>
        ELSE <<Min(matches), lastClose(Min(matches))>>

\* line 15: re.search(r"<strong>(.*?)</strong>", example): the leftmost
\* opening tag that a closing tag follows with no newline between, and the
\* first closing tag after it, as <<index of the match, index of the closing
\* tag>>; <<>> when nothing matches
RegexSearch(ex) ==
    LET closeOf(i) == Find(ex, StrongClose, i + Len(StrongOpen))
        matches == {i \in 0..Len(ex) :
                      /\ OccursAt(ex, StrongOpen, i)
                      /\ closeOf(i) # -1
                      /\ \A k \in (i + Len(StrongOpen))..(closeOf(i) - 1) :
                            ex[k + 1] # "\n"}
    IN  IF matches = {} THEN <<>>
        ELSE <<Min(matches), closeOf(Min(matches))>>

\* lines 15-22
extract_usage(ex) ==
    LET match == RegexSearch(ex)
    IN  IF match = <<>>
        THEN [usage |-> <<>>, example_without_usage |-> ex]
        ELSE LET group1 == Slice(ex, match[1] + Len(StrongOpen), match[2])
             IN  [usage |-> group1,
                  example_without_usage |->
                      Replace(ex, StrongOpen \o group1 \o StrongClose, Blank)]

\* line 155: correct_option["example"].replace("_____", f"<strong>{usage}</strong>")
RestoreUsage(ex, u) == Replace(ex, Blank, StrongOpen \o u \o StrongClose)

\* what an example is made of
Pieces == {StrongOpen, StrongClose, Blank, <<"a">>, <<"_">>}
QuizExamples == {Join(ps) : ps \in SeqsOf(Pieces, 0, MaxPieces)}

InitUsage ==
    /\ example_in \in QuizExamples
    /\ usage = <<>>
    /\ example_without_usage = <<>>
    /\ answer_example = <<>>
    /\ upc = "line"
    /\ QuizIdle /\ BatchIdle /\ ParseIdle /\ HighlightIdle /\ IdsIdle /\ ReadIdle

\* lines 49-59: read_magoosh_words stores the usage and the blanked example
StoreRecord ==
    /\ upc = "line"
    /\ usage' = extract_usage(example_in).usage
    /\ example_without_usage' = extract_usage(example_in).example_without_usage
    /\ upc' = "record"
    /\ UNCHANGED <<example_in, answer_example, notUsage>>

\* lines 151-155: create_anki_cards writes the example of the correct answer
ShowAnswer ==
    /\ upc = "record"
    /\ answer_example' = RestoreUsage(example_without_usage, usage)
    /\ upc' = "answer"
    /\ UNCHANGED <<example_in, usage, example_without_usage, notUsage>>

NextUsage == StoreRecord \/ ShowAnswer

SpecUsage == InitUsage /\ [][NextUsage]_vars

\* where the tags are in the input example
OpenAt == {i \in 0..Len(example_in) : OccursAt(example_in, StrongOpen, i)}
CloseAt == {j \in 0..Len(example_in) : OccursAt(example_in, StrongClose, j)}
ClosesAfter(i) == {j \in CloseAt : j >= i + Len(StrongOpen)}

\* the example has a marked span: an opening tag with a closing tag after it
HasSpan == \E i \in OpenAt : ClosesAfter(i) # {}

\* the first marked span: its opening tag and its closing tag
FirstOpen == Min({i \in OpenAt : ClosesAfter(i) # {}})
FirstClose == Min(ClosesAfter(FirstOpen))

\* s with the text m (not empty) replaced by the blank wherever it is
RECURSIVE BlankOut(_, _)
BlankOut(s, m) ==
    IF s = <<>> THEN <<>>
    ELSE IF OccursAt(s, m, 0)
         THEN Blank \o BlankOut(Slice(s, Len(m), Len(s)), m)
         ELSE <<Head(s)>> \o BlankOut(Tail(s), m)

\* C9: with a marked span in the example, usage is the inner text of the
\* first span and the stored example is the input with the marked text
\* (tags included) replaced by '_____'; with none, usage is empty and the
\* example is unchanged.
C9_ExtractUsage ==
    upc # "line" =>
        IF HasSpan
        THEN /\ usage = Slice(example_in, FirstOpen + Len(StrongOpen), FirstClose)
             /\ example_without_usage =
                   BlankOut(example_in,
                            Slice(example_in, FirstOpen, FirstClose + Len(StrongClose)))
        ELSE /\ usage = <<>>
             /\ example_without_usage = example_in

\* C9's case: two marked spans with different inner texts; the first is
\* blanked, the second stays
C9_Witness ==
    /\ upc = "record"
    /\ Cardinality(OpenAt) = 2
    /\ Cardinality(CloseAt) = 2
    /\ usage = <<"a">>
    /\ Find(example_without_usage, StrongOpen, 0) # -1
    /\ Find(example_without_usage, StrongClose, 0) # -1

\* the example has exactly one marked span: one opening tag, one closing
\* tag, in this order
ExactlyOneSpan ==
    /\ Cardinality(OpenAt) = 1
    /\ Cardinality(CloseAt) = 1
    /\ HasSpan

\* C10: for an example with exactly one marked span, the example of the
\* answer side is the input example (stated here for the spans that mark
\* some text, whatever the text around them).
C10_RoundTrip ==
    (upc = "answer" /\ ExactlyOneSpan /\ usage # <<>>) =>
        answer_example = example_in

(***************************************************************************)
(* Deck and model identifiers of the two scripts, over repeated runs       *)
(***************************************************************************)
\* the model id both scripts pass to genanki.Model
VocabModelId == 1607392319
QuizModelId == 1607392319
\* the deck id export_to_anki passes to genanki.Deck
QuizDeckId == 2059400110

\* the names a deck can get from the input file name
DeckNames == {"words", "verbs"}

\* hash(str) is keyed by a secret the interpreter draws when it starts (unless
\* PYTHONHASHSEED fixes it): in a process it can be any value of this range,
\* the same for the whole process
HashValues == (-MaxHash)..MaxHash

\* abs(x)
Abs(x) == IF x < 0 THEN -x ELSE x

\* convert_csv_to_anki, lines 125-160: the ids of a run whose hash(deck_name) is h
VocabIds(h) == [deck_id |-> Abs(h), model_id |-> VocabModelId]

\* export_to_anki, lines 203-341
QuizIds == [deck_id |-> QuizDeckId, model_id |-> QuizModelId]

InitIds ==
    /\ pipeline \in {"vocab", "quiz"}
    /\ deck_name \in DeckNames
    /\ str_hash = <<>>
    /\ decks = <<>>
    /\ ipc = "start"
    /\ QuizIdle /\ BatchIdle /\ ParseIdle /\ HighlightIdle /\ UsageIdle
    /\ ReadIdle

\* the script is started once more on the same file: a new process, with its
\* own hash secret
StartProcess ==
    /\ ipc = "start"
    /\ Len(decks) < MaxRuns
    /\ \E h \in HashValues : str_hash' = Append(str_hash, h)
    /\ ipc' = "running"
    /\ UNCHANGED <<pipeline, deck_name, decks, notIds>>

\* convert_csv_to_anki.py: the model and the deck of lines 125-160
ExportVocab ==
    /\ ipc = "running"
    /\ pipeline = "vocab"
    /\ decks' = Append(decks, VocabIds(str_hash[Len(str_hash)]))
    /\ ipc' = "start"
    /\ UNCHANGED <<pipeline, deck_name, str_hash, notIds>>

\* create_qna_anki.py: the model and the deck of export_to_anki
ExportQuiz ==
    /\ ipc = "running"
    /\ pipeline = "quiz"
    /\ decks' = Append(decks, QuizIds)
    /\ ipc' = "start"
    /\ UNCHANGED <<pipeline, deck_name, str_hash, notIds>>

\* no further run
LastRun ==
    /\ ipc = "start"
    /\ Len(decks) = MaxRuns
    /\ ipc' = "done"
    /\ UNCHANGED <<pipeline, deck_name, str_hash, decks, notIds>>

NextIds == StartProcess \/ ExportVocab \/ ExportQuiz \/ LastRun

SpecIds == InitIds /\ [][NextIds]_vars

\* C11: all runs of a script on the same input file name write the same deck
\* id and the same model id.
C11_StableIds ==
    \A i, j \in 1..Len(decks) : decks[i] = decks[j]

(***************************************************************************)
(* Quiz pipeline: read_magoosh_words (lines 25-60)                         *)
(***************************************************************************)
DotSpace == <<".", " ">>

\* line 41 without maxsplit: definition.split(". ")
RECURSIVE SplitDefinition_NoMaxsplit(_)
SplitDefinition_NoMaxsplit(definition) ==
    LET i == Find(definition, DotSpace, 0)
    IN  IF i = -1 THEN <<definition>>
        ELSE <<Slice(definition, 0, i)>>
               \o SplitDefinition_NoMaxsplit(
                      Slice(definition, i + Len(DotSpace), Len(definition)))

\* line 41: definition.split(". ", 1)
SplitDefinition(definition) ==
    LET i == Find(definition, DotSpace, 0)
    IN  IF i = -1 THEN <<definition>>
        ELSE <<Slice(definition, 0, i),
               Slice(definition, i + Len(DotSpace), Len(definition))>>

\* line 34: line.strip().split("|")
MagooshParts(line) == Split(Strip(line), "|")

\* lines 35 and 42: the line is skipped with a message
InvalidLine(line) ==
    IF Len(MagooshParts(line)) # 3 THEN TRUE
    ELSE Len(SplitDefinition(MagooshParts(line)[2])) # 2

\* lines 38-59: the record of a valid line
MagooshRecord(line) ==
    LET parts == MagooshParts(line)
        form_meaning == SplitDefinition(parts[2])
    IN  [word |-> parts[1],
         form |-> form_meaning[1],
         meaning |-> form_meaning[2],
         example |-> extract_usage(parts[3]).example_without_usage,
         usage |-> extract_usage(parts[3]).usage]

\* the lines a quiz file is made of, without their newline: four that give
\* a record (one with a second '. ', one with blanks around it, one with
\* empty form and meaning), three of 3 fields without '. ' in the second
\* (none, '.' alone, '. ' in the other fields), one of 2 fields, one of 4,
\* and the empty line
QuizLines ==
    {<<"a", "|", "n", ".", " ", "m", "|", "a">>,
     <<"a", "|", "v", ".", " ", "m", ".", " ", "x", "|", "a">>,
     <<" ", "a", "|", "v", ".", " ", "m", "|", "a", " ">>,
     <<"a", "|", ".", " ", "|", "a">>,
     <<"a", "|", "n", "|", "a">>,
     <<"a", "|", "n", ".", "m", "|", "a">>,
     <<"n", ".", " ", "m", "|", "a", "|", "n", ".", " ", "m">>,
     <<"a", "|", "n", ".", " ", "m">>,
     <<"a", "|", "n", ".", " ", "m", "|", "a", "|", "a">>,
     <<>>}

\* the files of up to MaxQuizLines lines, each line ended by a newline, the
\* last one with or without it
QuizTexts ==
    UNION {LET text == Join([i \in 1..Len(ls) |-> ls[i] \o <<"\n">>])
           IN  {text, Slice(text, 0, Len(text) - 1)} :
              ls \in SeqsOf(QuizLines, 0, MaxQuizLines)}

\* lines 30-31
InitRead ==
    /\ quiz_text \in QuizTexts
    /\ quiz_line = 1
    /\ magoosh_words = <<>>
    /\ invalid_lines = 0
    /\ rpc = "loop"
    /\ QuizIdle /\ BatchIdle /\ ParseIdle /\ HighlightIdle /\ UsageIdle
    /\ IdsIdle

\* lines 32-37, 41-44: a line that is skipped
SkipInvalidLine ==
    /\ rpc = "loop"
    /\ quiz_line <= Len(FileLines(quiz_text))
    /\ InvalidLine(FileLines(quiz_text)[quiz_line])
    /\ invalid_lines' = invalid_lines + 1
    /\ quiz_line' = quiz_line + 1
    /\ UNCHANGED <<quiz_text, magoosh_words, rpc, notRead>>

\* lines 32-59: a line that gives a record
AppendRecord ==
    /\ rpc = "loop"
    /\ quiz_line <= Len(FileLines(quiz_text))
    /\ ~InvalidLine(FileLines(quiz_text)[quiz_line])
    /\ magoosh_words' =
          Append(magoosh_words, MagooshRecord(FileLines(quiz_text)[quiz_line]))
    /\ quiz_line' = quiz_line + 1
    /\ UNCHANGED <<quiz_text, invalid_lines, rpc, notRead>>

\* line 60: return words
ReturnWords ==
    /\ rpc = "loop"
    /\ quiz_line > Len(FileLines(quiz_text))
    /\ rpc' = "returned"
    /\ UNCHANGED <<quiz_text, quiz_line, magoosh_words, invalid_lines, notRead>>

NextRead == SkipInvalidLine \/ AppendRecord \/ ReturnWords

SpecRead == InitRead /\ [][NextRead]_vars

\* the indices of the '|' of a line, and of its '. '
BarsOf(line) == {i \in 0..(Len(line) - 1) : line[i + 1] = "|"}
DotSpacesIn(line, lo, hi) ==
    {i \in lo..(hi - 2) : line[i + 1] = "." /\ line[i + 2] = " "}

\* the line has exactly 3 fields, and '. ' is in the second
WellFormed(line) ==
    /\ Cardinality(BarsOf(line)) = 2
    /\ DotSpacesIn(line, Min(BarsOf(line)) + 1,
                   CHOOSE j \in BarsOf(line) : j # Min(BarsOf(line))) # {}

\* form and meaning of a well-formed line: the second field before its
\* first '. ', and all of it after
FormMeaning(line) ==
    LET bar1 == Min(BarsOf(line))
        bar2 == CHOOSE j \in BarsOf(line) : j # bar1
        dot == Min(DotSpacesIn(line, bar1 + 1, bar2))
    IN  [form |-> Slice(line, bar1 + 1, dot),
         meaning |-> Slice(line, dot + 2, bar2)]

\* the lines read so far
LinesRead == SubSeq(FileLines(quiz_text), 1, quiz_line - 1)

\* C12: the records kept are those of the well-formed lines read (exactly 3
\* fields, '. ' in the second), one per line in line order, with form and
\* meaning split at the first '. ' only; every other line read gave a
\* message and no record.
C12_MalformedDropped ==
    rpc \in {"loop", "returned"} =>
        LET good == SelectSeq(LinesRead, WellFormed)
        IN  /\ Len(magoosh_words) = Len(good)
            /\ invalid_lines = Len(LinesRead) - Len(good)
            /\ \A i \in 1..Len(good) :
                  /\ magoosh_words[i].form = FormMeaning(good[i]).form
                  /\ magoosh_words[i].meaning = FormMeaning(good[i]).meaning

\* C12's case: the file is read to its end, two records are kept, a line
\* between them was skipped, and a meaning holds a second '. '
C12_Witness ==
    /\ rpc = "returned"
    /\ Len(magoosh_words) = 2
    /\ magoosh_words[1].form # magoosh_words[2].form
    /\ invalid_lines >= 1
    /\ ~WellFormed(FileLines(quiz_text)[2])
    /\ \E i \in 1..2 : Find(magoosh_words[i].meaning, DotSpace, 0) # -1

====
